---- MODULE Spec2Model ----
(***************************************************************************)
(* Iraq air-quality repository: the Telegram alert bot                     *)
(* (iraq-aqi-bot/bot.py.backup) and the map front end (js/main.js and its  *)
(* variants), modelled as state machines.                                  *)
(*                                                                         *)
(* Spec        : the bot's main loop (getUpdates, command handlers,        *)
(*               check_alerts, sleep) next to the pipeline that replaces   *)
(*               pm10_alerts.json.                                         *)
(* SpecNearest : the three nearest-district loops applied to one input.    *)
(* SpecDust    : the three dust-storm predicates applied to one input.     *)
(* SpecClassify, SpecPopup, SpecView, SpecMenu : the front end's            *)
(*               classifier, popup, district list and mobile menu.         *)
(* SpecPipeline, SpecStore, SpecFile : the pipeline scripts, the hourly    *)
(*               store and the published pm10_alerts.json.                 *)
(* SpecCommands, SpecSerial : the bot's commands on a users table, and      *)
(*               main() with check_alerts taken row by row.                *)
(***************************************************************************)
EXTENDS Integers, Sequences, FiniteSets, TLC

VARIABLES
  users,    \* the users table: chat_id -> row
  pc,       \* position of main(): "poll", "handle", "sleep", "crashed"
  inbox,    \* update_ids of the getUpdates result not yet iterated
  offset,   \* main()'s offset
  err,      \* the exception that left main(), "none" while it runs
  cycle,    \* runs of check_alerts started so far
  hist,     \* what the last two runs of check_alerts did, oldest first
  nq,       \* SpecNearest: the query and the three loops' results
  dq,       \* SpecDust: the query and the three predicates' results
  cq,       \* SpecClassify: two concentrations and their classes
  popup,    \* SpecPopup: one district and the popups built for it
  view,     \* SpecView: the page of the front end (snapshot, markers, list)
  pipe,     \* SpecPipeline: the run of a pipeline script and the published files
  store,    \* SpecStore: the hourly store and the operations applied to it
  cmd,      \* SpecCommands: a users table and the commands applied to it
  chk,      \* SpecSerial: main() with check_alerts taken row by row
  file,     \* SpecFile: pm10_alerts.json, its writer and a reader
  menu      \* SpecMenu: the mobile menu of the page

vars == <<users, pc, inbox, offset, err, cycle, hist, nq, dq, cq, popup, view, pipe, store, cmd,
          chk, file, menu>>

\* the variables of the bot
botVars == <<users, pc, inbox, offset, err, cycle, hist>>
\* the variables of the other specifications added to Spec, SpecNearest, SpecDust
aux == <<cq, popup, view, pipe, store, cmd, chk, file, menu>>

----------------------------------------------------------------------------
(* Bounds of the model *)

\* iterations of main()'s loop, each with one run of check_alerts
MaxCycles == 2
\* update_ids delivered over the bot's life
MaxUpdates == 3
\* updates in one getUpdates result
MaxBatch == 2
\* districts in a list given to the nearest-district loops (SpecNearest);
\* also the link clicks whose delayed close is pending at once (SpecMenu)
MaxLen == 2
\* tenths around each dust-storm threshold tried in SpecDust
Spread == 2
\* consecutive runs of a pipeline script (SpecPipeline)
MaxRuns == 2
\* hours a backfill covers and appends and backfills applied (SpecStore);
\* MaxOps is also the number of times pm10_alerts.json is read (SpecFile)
MaxHours == 2
MaxOps == 3

\* the chats that talk to the bot
ChatIds == {1, 2}

----------------------------------------------------------------------------
(* Values as JSON, Python and JavaScript see them.  Numbers are kept in    *)
(* tenths, so that 299.9 is a value of the model.                          *)

Num(x) == [t |-> "num", v |-> x]
None == [t |-> "none", v |-> 0]
NaN == [t |-> "nan", v |-> 0]

\* i.d as a number of tenths
Dec(i, d) == i * 10 + d

\* Python "not x" is false / JavaScript "!x" is false: a number other than 0
Truthy(x) == x.t = "num" /\ x.v # 0

\* x >= n for a number x (false for NaN in both languages)
Geq(x, n) == x.t = "num" /\ x.v >= Dec(n, 0)

\* JavaScript "x || 0"
OrZero(x) == IF Truthy(x) THEN x ELSE Num(0)

----------------------------------------------------------------------------
(* Great-circle distance.  Both formulas (asin in the bot, atan2 in the    *)
(* front end) are tabulated in metres over the coordinates of the model;   *)
(* on these coordinates the two agree to the metre and the rounding keeps  *)
(* the order and the ties of the floating-point results.                   *)

HaversineMetres ==
  <<33, 44, 33, 44>> :> 0 @@
  <<33, 44, 33, 46>> :> 186509 @@
  <<33, 44, 34, 45>> :> 144781 @@
  <<33, 44, 0, 44>> :> 3669433 @@
  <<33, 44, 33, 0>> :> 4072138 @@
  <<33, 45, 33, 44>> :> 93256 @@
  <<33, 45, 33, 46>> :> 93256 @@
  <<33, 45, 34, 45>> :> 111195 @@
  <<33, 45, 0, 44>> :> 3670926 @@
  <<33, 45, 33, 0>> :> 4163161 @@
  <<1, 44, 33, 44>> :> 3558238 @@
  <<1, 44, 33, 46>> :> 3564374 @@
  <<1, 44, 34, 45>> :> 3670909 @@
  <<1, 44, 0, 44>> :> 111195 @@
  <<1, 44, 33, 0>> :> 5806024 @@
  <<1, 1, 33, 44>> :> 5724405 @@
  <<1, 1, 33, 46>> :> 5888307 @@
  <<1, 1, 34, 45>> :> 5859654 @@
  <<1, 1, 0, 44>> :> 4782422 @@
  <<1, 1, 33, 0>> :> 3559773

\* bot: haversine(lat1, lon1, lat2, lon2), in metres
haversine(lat1, lon1, lat2, lon2) == HaversineMetres[<<lat1, lon1, lat2, lon2>>]

\* front end: haversineDistance(lat1, lon1, lat2, lon2), in metres
haversineDistance(lat1, lon1, lat2, lon2) == HaversineMetres[<<lat1, lon1, lat2, lon2>>]

\* min_d = 99999 (km)
MIN_D == 99999

----------------------------------------------------------------------------
(* Dust-storm predicates *)

DUST_PM10 == 300
DUST_AQI == 200

\* bot: "pm10 >= 300 or aqi >= 200" raises TypeError on None; "or" does not
\* evaluate aqi when the first comparison is true
is_dust_storm_raises(pm10, aqi) ==
  \/ pm10.t = "none"
  \/ ~Geq(pm10, DUST_PM10) /\ aqi.t = "none"

\* is_dust_storm with ">" written for ">="
is_dust_storm_gt(pm10, aqi) ==
  \/ pm10.t = "num" /\ pm10.v > Dec(DUST_PM10, 0)
  \/ aqi.t = "num" /\ aqi.v > Dec(DUST_AQI, 0)

is_dust_storm(pm10, aqi) == Geq(pm10, DUST_PM10) \/ Geq(aqi, DUST_AQI)

\* front end, first variant: no coercion (null >= 300 is false)
isDustStormCondition0(pm10, aqi) == Geq(pm10, DUST_PM10) \/ Geq(aqi, DUST_AQI)

\* front end, js/main.js: pm10 = pm10 || 0; aqi = aqi || 0
isDustStormCondition(pm10, aqi) ==
  Geq(OrZero(pm10), DUST_PM10) \/ Geq(OrZero(aqi), DUST_AQI)

----------------------------------------------------------------------------
(* Nearest-district loops.  Each returns the index in the list of the      *)
(* district it selected (0: None / null) and whether it raised.            *)

\* handle_location: skips a district whose latitude is missing, None or 0
RECURSIVE nearest_handle_location(_, _, _, _, _)
nearest_handle_location(lat, lon, districts, i, acc) ==
  IF i > Len(districts) \/ acc.raised THEN acc
  ELSE LET d == districts[i] IN
       IF ~Truthy(d.latitude)
       THEN nearest_handle_location(lat, lon, districts, i + 1, acc)
       ELSE IF d.longitude.t # "num"
       THEN [acc EXCEPT !.raised = TRUE]
       ELSE LET dist == haversine(lat, lon, d.latitude.v, d.longitude.v) IN
            IF dist < acc.min_d
            THEN nearest_handle_location(lat, lon, districts, i + 1,
                   [acc EXCEPT !.nearest = i, !.min_d = dist])
            ELSE nearest_handle_location(lat, lon, districts, i + 1, acc)

\* check_alerts: no test of the coordinates; arithmetic on None raises
RECURSIVE nearest_check_alerts(_, _, _, _, _)
nearest_check_alerts(lat, lon, districts, i, acc) ==
  IF i > Len(districts) \/ acc.raised THEN acc
  ELSE LET d == districts[i] IN
       IF d.latitude.t # "num" \/ d.longitude.t # "num"
       THEN [acc EXCEPT !.raised = TRUE]
       ELSE LET dist == haversine(lat, lon, d.latitude.v, d.longitude.v) IN
            IF dist < acc.min_d
            THEN nearest_check_alerts(lat, lon, districts, i + 1,
                   [acc EXCEPT !.nearest = i, !.min_d = dist])
            ELSE nearest_check_alerts(lat, lon, districts, i + 1, acc)

\* nearest = None, min_d = 99999
NearestInit == [nearest |-> 0, min_d |-> MIN_D * 1000, raised |-> FALSE]

\* front end: skips a district whose latitude or longitude is falsy;
\* minDist starts at Infinity (inf)
RECURSIVE findNearestDistrictLoop(_, _, _, _, _)
findNearestDistrictLoop(lat, lon, districts, i, acc) ==
  IF i > Len(districts) THEN acc
  ELSE LET d == districts[i] IN
       IF ~Truthy(d.latitude) \/ ~Truthy(d.longitude)
       THEN findNearestDistrictLoop(lat, lon, districts, i + 1, acc)
       ELSE LET dist == haversineDistance(lat, lon, d.latitude.v, d.longitude.v) IN
            IF acc.inf \/ dist < acc.minDist
            THEN findNearestDistrictLoop(lat, lon, districts, i + 1,
                   [nearest |-> i, minDist |-> dist, inf |-> FALSE])
            ELSE findNearestDistrictLoop(lat, lon, districts, i + 1, acc)

findNearestDistrict(lat, lon, districts) ==
  findNearestDistrictLoop(lat, lon, districts, 1,
    [nearest |-> 0, minDist |-> 0, inf |-> TRUE]).nearest

----------------------------------------------------------------------------
(* The published snapshot, as far as the bot reads it *)

\* ALERT_TEXT[lang][level] is defined for these
AlertLangs == {"ar", "en"}
AlertLevels == {"good", "moderate", "unhealthy_for_sensitive_groups",
                "unhealthy", "very_unhealthy", "hazardous"}

\* (alert.level, aqi.value, pm10.now) of a district in a snapshot
Readings ==
  { [level |-> "moderate",  aqi |-> Num(Dec(80, 0)),  pm10 |-> Num(Dec(120, 0))],
    [level |-> "unhealthy", aqi |-> Num(Dec(160, 0)), pm10 |-> Num(Dec(260, 0))],
    [level |-> "unhealthy", aqi |-> Num(Dec(160, 0)), pm10 |-> Num(Dec(320, 0))] }

District(id, lat, lon, r) ==
  [district_id |-> id, latitude |-> lat, longitude |-> lon,
   level |-> r.level, aqi |-> r.aqi, pm10 |-> r.pm10]

D1(r) == District("D1", Num(33), Num(44), r)
D2(r) == District("D2", Num(33), Num(46), r)
\* a district published without coordinates
D2NoCoord(r) == District("D2", None, None, r)

\* the reading of the second district
Calm == [level |-> "moderate", aqi |-> Num(Dec(80, 0)), pm10 |-> Num(Dec(120, 0))]

Snapshots ==
  {<<>>, <<D2(Calm), D1(Calm)>>, <<D1(Calm), D2NoCoord(Calm)>>}
  \cup {<<D1(r), D2(Calm)>> : r \in Readings}

\* locations a user can share: at D1, and halfway between D1 and D2
Points == {<<33, 44>>, <<33, 45>>}

\* what requests.post does in send_message: the API answers ok, the API
\* answers an error status (requests raises nothing), or requests raises
SendOutcomes == {"ok", "rejected", "raise"}

\* the same, as far as a command handler can tell: send_message returns or raises
ReplyOutcomes == {"ok", "raise"}

----------------------------------------------------------------------------
(* The users table *)

\* INSERT INTO users(chat_id, lat, lon, district_id): last_level NULL,
\* lang DEFAULT 'ar', active DEFAULT 1
NewRow(lat, lon, district_id) ==
  [lat |-> lat, lon |-> lon, district_id |-> district_id,
   last_level |-> "NULL", lang |-> "ar", active |-> 1]

\* INSERT OR REPLACE: the row is written anew on a conflict
UpsertReplaces(tbl, chat_id, lat, lon, district_id) ==
  [c \in DOMAIN tbl \cup {chat_id} |->
     IF c # chat_id THEN tbl[c] ELSE NewRow(lat, lon, district_id)]

\* INSERT ... ON CONFLICT(chat_id) DO UPDATE SET lat, lon, district_id, active=1
Upsert(tbl, chat_id, lat, lon, district_id) ==
  [c \in DOMAIN tbl \cup {chat_id} |->
     IF c # chat_id THEN tbl[c]
     ELSE IF chat_id \in DOMAIN tbl
          THEN [tbl[c] EXCEPT !.lat = lat, !.lon = lon,
                              !.district_id = district_id, !.active = 1]
          ELSE NewRow(lat, lon, district_id)]

\* /stop as DELETE FROM users WHERE chat_id=?
SetActiveDeletes(tbl, chat_id, a) ==
  IF a = 0
  THEN [c \in DOMAIN tbl \ {chat_id} |-> tbl[c]]
  ELSE [c \in DOMAIN tbl |-> IF c = chat_id THEN [tbl[c] EXCEPT !.active = a] ELSE tbl[c]]

\* UPDATE users SET active=? without the WHERE clause
SetActiveEveryRow(tbl, chat_id, a) ==
  [c \in DOMAIN tbl |-> [tbl[c] EXCEPT !.active = a]]

\* UPDATE users SET active=? WHERE chat_id=?
SetActive(tbl, chat_id, a) ==
  [c \in DOMAIN tbl |-> IF c = chat_id THEN [tbl[c] EXCEPT !.active = a] ELSE tbl[c]]

\* UPDATE users SET lang=? WHERE chat_id=?
SetLang(tbl, chat_id, l) ==
  [c \in DOMAIN tbl |-> IF c = chat_id THEN [tbl[c] EXCEPT !.lang = l] ELSE tbl[c]]

\* UPDATE users SET last_level=? without the WHERE clause
SetLastLevelEveryRow(tbl, chat_id, level) ==
  [c \in DOMAIN tbl |-> [tbl[c] EXCEPT !.last_level = level]]

\* UPDATE users SET last_level=? WHERE chat_id=?
SetLastLevel(tbl, chat_id, level) ==
  [c \in DOMAIN tbl |-> IF c = chat_id THEN [tbl[c] EXCEPT !.last_level = level] ELSE tbl[c]]

\* the SELECT of check_alerts without "WHERE active=1"
SelectedChatAnyActive(tbl, c) == c \in DOMAIN tbl

\* the rows check_alerts iterates over
SelectedChat(tbl, c) == c \in DOMAIN tbl /\ tbl[c].active = 1

\* SELECT chat_id, lat, lon, last_level, lang FROM users WHERE active=1,
\* in rowid (chat_id) order
RECURSIVE SelectActive(_, _)
SelectActive(tbl, c) ==
  IF \A k \in ChatIds : c > k THEN <<>>
  ELSE (IF SelectedChat(tbl, c)
        THEN <<[chat_id |-> c, lat |-> tbl[c].lat, lon |-> tbl[c].lon,
                last |-> tbl[c].last_level, lang |-> tbl[c].lang]>>
        ELSE <<>>) \o SelectActive(tbl, c + 1)

----------------------------------------------------------------------------
(* check_alerts *)

\* the body of "for chat_id, lat, lon, last, lang in users" for one row.
\* st: the table, the calls of send_message made so far, the exception raised
check_alerts_row(row, districts, outcome, st) ==
  LET res == nearest_check_alerts(row.lat, row.lon, districts, 1, NearestInit) IN
  IF res.raised \/ res.nearest = 0
  THEN [st EXCEPT !.err = "TypeError"]
  ELSE LET nearest == districts[res.nearest]
           level == nearest.level
           aqi == nearest.aqi
           pm10 == nearest.pm10
       IN IF is_dust_storm_raises(pm10, aqi)
          THEN [st EXCEPT !.err = "TypeError"]
          ELSE IF is_dust_storm(pm10, aqi) \/ level # row.last
          THEN IF ~(row.lang \in AlertLangs /\ level \in AlertLevels)
               THEN [st EXCEPT !.err = "KeyError"]
               ELSE LET call == [chat_id |-> row.chat_id,
                                 district_id |-> nearest.district_id,
                                 level |-> level,
                                 outcome |-> outcome[row.chat_id]]
                    IN IF outcome[row.chat_id] = "raise"
                       THEN [st EXCEPT !.log = Append(@, call),
                                       !.err = "ConnectionError"]
                       ELSE [st EXCEPT !.log = Append(@, call),
                                       !.tbl = SetLastLevel(@, row.chat_id, level)]
          ELSE st

RECURSIVE check_alerts_loop(_, _, _, _)
check_alerts_loop(rows, districts, outcome, st) ==
  IF rows = <<>> \/ st.err # "none" THEN st
  ELSE check_alerts_loop(Tail(rows), districts, outcome,
                         check_alerts_row(Head(rows), districts, outcome, st))

check_alerts(tbl, districts, outcome) ==
  check_alerts_loop(SelectActive(tbl, 1), districts, outcome,
                    [tbl |-> tbl, log |-> <<>>, err |-> "none"])

(* What a run did: the exception that ended it, whether the list it loaded *)
(* was empty, and for each chat: whether it had a row and was active when  *)
(* the run started, its last_level before and after, the calls of          *)
(* send_message for it and the outcome of the last one, and the state of   *)
(* the district nearest to its stored location in the list the run loaded, *)
(* and the district_id of the district the run's own loop took for it.     *)

\* the districts of a list that have coordinates
HasCoordinates(d) == d.latitude.t = "num" /\ d.longitude.t = "num"

\* the first district at minimal great-circle distance, 0 if there is none
NearestIndex(lat, lon, districts) ==
  LET I == {i \in 1..Len(districts) : HasCoordinates(districts[i])}
      dist(i) == haversine(lat, lon, districts[i].latitude.v, districts[i].longitude.v)
  IN IF I = {} THEN 0
     ELSE CHOOSE i \in I : \A j \in I : dist(i) < dist(j) \/ (dist(i) = dist(j) /\ i <= j)

\* pm10 >= 300 or aqi >= 200
DustStorm(d) == Geq(d.pm10, DUST_PM10) \/ Geq(d.aqi, DUST_AQI)

Calls(log, c) == SelectSeq(log, LAMBDA e : e.chat_id = c)

NoRow == [present |-> FALSE, active |-> FALSE, before |-> "NULL", after |-> "NULL",
          sent |-> 0, outcome |-> "none", resolved |-> FALSE,
          level |-> "NULL", dust |-> FALSE, used |-> ""]

Observed(tbl, districts, st) ==
  [err |-> st.err,
   empty |-> districts = <<>>,
   chats |-> [c \in ChatIds |->
     IF c \notin DOMAIN tbl THEN NoRow
     ELSE LET n == NearestIndex(tbl[c].lat, tbl[c].lon, districts)
              calls == Calls(st.log, c)
              res == nearest_check_alerts(tbl[c].lat, tbl[c].lon, districts, 1, NearestInit)
          IN [present |-> TRUE,
              active |-> tbl[c].active = 1,
              before |-> tbl[c].last_level,
              after |-> st.tbl[c].last_level,
              sent |-> Len(calls),
              outcome |-> IF calls = <<>> THEN "none" ELSE calls[Len(calls)].outcome,
              resolved |-> n # 0,
              level |-> IF n = 0 THEN "NULL" ELSE districts[n].level,
              dust |-> IF n = 0 THEN FALSE ELSE DustStorm(districts[n]),
              used |-> IF tbl[c].active = 1 /\ ~res.raised /\ res.nearest # 0
                       THEN districts[res.nearest].district_id ELSE ""]]]


\* keep the last two runs
Remember(h, run) == IF h = <<>> THEN <<run>> ELSE <<h[Len(h)], run>>

----------------------------------------------------------------------------
(* The bot: main() and the handlers *)

NqIdle == [lat |-> 0, lon |-> 0, districts |-> <<>>, done |-> {},
           hl |-> 0, hlRaised |-> FALSE, ca |-> 0, caRaised |-> FALSE, fe |-> 0]
DqIdle == [pm10 |-> Num(0), aqi |-> Num(0), done |-> {},
           bot |-> FALSE, fe0 |-> FALSE, fe |-> FALSE]
\* the front end, the pipeline and the hourly store before anything ran
CqIdle == [c1 |-> Num(0), c2 |-> Num(0), done |-> {},
           level1 |-> "", level2 |-> "", color1 |-> "", color2 |-> ""]
Idle == [phase |-> "idle"]

AuxIdle ==
  /\ cq = CqIdle
  /\ popup = Idle
  /\ view = Idle
  /\ pipe = Idle
  /\ store = Idle
  /\ cmd = Idle
  /\ chk = Idle
  /\ file = Idle
  /\ menu = Idle

\* the bot before main() starts: no row in users, offset None
BotIdle ==
  /\ users = [c \in {} |-> NewRow(0, 0, "")]
  /\ pc = "poll"
  /\ inbox = <<>>
  /\ offset = 0
  /\ err = "none"
  /\ cycle = 0
  /\ hist = <<>>

Init ==
  /\ BotIdle
  /\ nq = NqIdle
  /\ dq = DqIdle
  /\ AuxIdle

\* load_data(): the districts of pm10_alerts.json as the pipeline last wrote
\* it.  The pipeline runs on its own schedule and replaces the file between
\* any two reads, so each read finds any of the snapshots.
load_data(districts) == districts \in Snapshots

\* n consecutive update_ids
RECURSIVE UpdateIds(_, _)
UpdateIds(first, n) == IF n = 0 THEN <<>> ELSE <<first>> \o UpdateIds(first + 1, n - 1)

\* requests.get(getUpdates, offset).json(): the updates not yet confirmed
GetUpdates ==
  /\ pc = "poll"
  /\ cycle < MaxCycles
  /\ \E n \in 0..MaxBatch :
       LET first == IF offset = 0 THEN 1 ELSE offset IN
       /\ first + n - 1 <= MaxUpdates
       /\ inbox' = UpdateIds(first, n)
  /\ pc' = "handle"
  /\ UNCHANGED <<users, offset, err, cycle, hist, nq, dq, aux>>

\* requests.get raises: nothing in main() catches it
GetUpdatesRaises ==
  /\ pc = "poll"
  /\ cycle < MaxCycles
  /\ pc' = "crashed"
  /\ err' = "ConnectionError"
  /\ UNCHANGED <<users, inbox, offset, cycle, hist, nq, dq, aux>>

\* "for u in updates" with offset = u["update_id"]
TakeSameOffset ==
  /\ pc = "handle"
  /\ inbox # <<>>
  /\ offset' = Head(inbox)
  /\ inbox' = Tail(inbox)

\* "for u in updates": offset = u["update_id"] + 1, then the body
Take ==
  /\ pc = "handle"
  /\ inbox # <<>>
  /\ offset' = Head(inbox) + 1
  /\ inbox' = Tail(inbox)

\* send_message at the end of a handler: an exception leaves main()
Reply(o) ==
  /\ pc' = IF o = "raise" THEN "crashed" ELSE "handle"
  /\ err' = IF o = "raise" THEN "ConnectionError" ELSE "none"

\* an update without "message", or a text that is no command
HandleOther ==
  /\ Take
  /\ UNCHANGED <<users, pc, err, cycle, hist, nq, dq, aux>>

HandleStart ==
  /\ Take
  /\ \E o \in ReplyOutcomes : Reply(o)
  /\ UNCHANGED <<users, cycle, hist, nq, dq, aux>>

HandleLocation ==
  /\ Take
  /\ \E chat \in ChatIds, p \in Points, o \in ReplyOutcomes, districts \in Snapshots :
     \E res \in {nearest_handle_location(p[1], p[2], districts, 1, NearestInit)} :
       /\ load_data(districts)
       /\ IF res.raised
          THEN /\ pc' = "crashed"
               /\ err' = "TypeError"
               /\ users' = users
          ELSE IF res.nearest = 0
          THEN /\ Reply(o)
               /\ users' = users
          ELSE /\ Reply(o)
               /\ users' = Upsert(users, chat, p[1], p[2],
                                  districts[res.nearest].district_id)
  /\ UNCHANGED <<cycle, hist, nq, dq, aux>>

HandleStatus ==
  /\ Take
  /\ \E o \in ReplyOutcomes : Reply(o)
  /\ UNCHANGED <<users, cycle, hist, nq, dq, aux>>

HandleStop ==
  /\ Take
  /\ \E chat \in ChatIds, o \in ReplyOutcomes :
       /\ users' = SetActive(users, chat, 0)
       /\ Reply(o)
  /\ UNCHANGED <<cycle, hist, nq, dq, aux>>

HandleResume ==
  /\ Take
  /\ \E chat \in ChatIds, o \in ReplyOutcomes :
       /\ users' = SetActive(users, chat, 1)
       /\ Reply(o)
  /\ UNCHANGED <<cycle, hist, nq, dq, aux>>

\* handle_lang with INSERT ... ON CONFLICT(chat_id) DO UPDATE SET lang for the
\* UPDATE
handle_lang_upserts(tbl, chat_id) ==
  LET new_lang == IF chat_id \in DOMAIN tbl /\ tbl[chat_id].lang = "ar"
                  THEN "en" ELSE "ar"
  IN [c \in DOMAIN tbl \cup {chat_id} |->
        IF c # chat_id THEN tbl[c]
        ELSE IF c \in DOMAIN tbl THEN [tbl[c] EXCEPT !.lang = new_lang]
        ELSE [NewRow(0, 0, "") EXCEPT !.lang = new_lang]]

\* handle_lang: the table after "UPDATE users SET lang=new_lang", with
\* new_lang = "en" if row and row[0] == "ar" else "ar"
handle_lang(tbl, chat_id) ==
  LET new_lang == IF chat_id \in DOMAIN tbl /\ tbl[chat_id].lang = "ar"
                  THEN "en" ELSE "ar"
  IN SetLang(tbl, chat_id, new_lang)

HandleLang ==
  /\ Take
  /\ \E chat \in ChatIds, o \in ReplyOutcomes :
       /\ users' = handle_lang(users, chat)
       /\ Reply(o)
  /\ UNCHANGED <<cycle, hist, nq, dq, aux>>

\* check_alerts() after the updates of this iteration
CheckAlerts ==
  /\ pc = "handle"
  /\ inbox = <<>>
  /\ \E districts \in Snapshots,
        outcome \in [{c \in ChatIds : SelectedChat(users, c)} -> SendOutcomes] :
     \E st \in {check_alerts(users, districts, outcome)} :
       /\ load_data(districts)
       /\ users' = st.tbl
       /\ hist' = Remember(hist, Observed(users, districts, st))
       /\ cycle' = cycle + 1
       /\ pc' = IF st.err = "none" THEN "sleep" ELSE "crashed"
       /\ err' = st.err
  /\ UNCHANGED <<inbox, offset, nq, dq, aux>>

\* time.sleep(CHECK_INTERVAL)
Sleep ==
  /\ pc = "sleep"
  /\ pc' = "poll"
  /\ UNCHANGED <<users, inbox, offset, err, cycle, hist, nq, dq, aux>>

Next ==
  \/ GetUpdates
  \/ GetUpdatesRaises
  \/ HandleOther
  \/ HandleStart
  \/ HandleLocation
  \/ HandleStatus
  \/ HandleStop
  \/ HandleResume
  \/ HandleLang
  \/ CheckAlerts
  \/ Sleep

Spec == Init /\ [][Next]_vars

----------------------------------------------------------------------------
(* SpecNearest: handle_location's loop, check_alerts' loop and the front    *)
(* end's findNearestDistrict applied to one point and one district list.   *)

\* points asked about
QueryPoints == {<<33, 44>>, <<33, 45>>, <<1, 44>>, <<1, 1>>}

\* districts a list is made of: four around Iraq and on the map's axes, and
\* one published without coordinates
Places ==
  { District("A", Num(33), Num(44), Calm), District("B", Num(33), Num(46), Calm),
    District("C", Num(34), Num(45), Calm), District("E", Num(0), Num(44), Calm),
    District("G", Num(33), Num(0), Calm),  District("N", None, None, Calm) }

\* lists of at most MaxLen different districts
RECURSIVE ListsOfLen(_)
ListsOfLen(n) ==
  IF n = 0 THEN {<<>>}
  ELSE {Append(l, d) : l \in ListsOfLen(n - 1), d \in Places}

DistrictLists ==
  {l \in UNION {ListsOfLen(n) : n \in 0..MaxLen} :
     \A i, j \in 1..Len(l) : i # j => l[i] # l[j]}

InitNearest ==
  /\ BotIdle
  /\ dq = DqIdle
  /\ AuxIdle
  /\ \E p \in QueryPoints, l \in DistrictLists :
       nq = [NqIdle EXCEPT !.lat = p[1], !.lon = p[2], !.districts = l]

ApplyHandleLocationLoop ==
  /\ "hl" \notin nq.done
  /\ \E res \in {nearest_handle_location(nq.lat, nq.lon, nq.districts, 1, NearestInit)} :
       nq' = [nq EXCEPT !.hl = res.nearest, !.hlRaised = res.raised,
                        !.done = @ \cup {"hl"}]
  /\ UNCHANGED <<users, pc, inbox, offset, err, cycle, hist, dq, aux>>

ApplyCheckAlertsLoop ==
  /\ "ca" \notin nq.done
  /\ \E res \in {nearest_check_alerts(nq.lat, nq.lon, nq.districts, 1, NearestInit)} :
       nq' = [nq EXCEPT !.ca = res.nearest, !.caRaised = res.raised,
                        !.done = @ \cup {"ca"}]
  /\ UNCHANGED <<users, pc, inbox, offset, err, cycle, hist, dq, aux>>

ApplyFindNearestDistrict ==
  /\ "fe" \notin nq.done
  /\ nq' = [nq EXCEPT !.fe = findNearestDistrict(nq.lat, nq.lon, nq.districts),
                      !.done = @ \cup {"fe"}]
  /\ UNCHANGED <<users, pc, inbox, offset, err, cycle, hist, dq, aux>>

SpecNearest ==
  InitNearest /\ [][ApplyHandleLocationLoop \/ ApplyCheckAlertsLoop \/ ApplyFindNearestDistrict]_vars

----------------------------------------------------------------------------
(* SpecDust: the bot's is_dust_storm and the front end's two               *)
(* isDustStormCondition applied to one numeric (pm10, aqi).                *)

\* numbers around a threshold t: whole units and tenths, and 0 and NaN
Around(t) ==
  {Num(Dec(t + k, 0)) : k \in -Spread..Spread}
  \cup {Num(Dec(t, 0) + k) : k \in -Spread..Spread}
  \cup {Num(0), NaN}

InitDust ==
  /\ BotIdle
  /\ nq = NqIdle
  /\ AuxIdle
  /\ \E pm10 \in Around(DUST_PM10), aqi \in Around(DUST_AQI) :
       dq = [DqIdle EXCEPT !.pm10 = pm10, !.aqi = aqi]

ApplyIsDustStorm ==
  /\ "bot" \notin dq.done
  /\ ~is_dust_storm_raises(dq.pm10, dq.aqi)
  /\ dq' = [dq EXCEPT !.bot = is_dust_storm(dq.pm10, dq.aqi), !.done = @ \cup {"bot"}]
  /\ UNCHANGED <<users, pc, inbox, offset, err, cycle, hist, nq, aux>>

ApplyIsDustStormCondition0 ==
  /\ "fe0" \notin dq.done
  /\ dq' = [dq EXCEPT !.fe0 = isDustStormCondition0(dq.pm10, dq.aqi),
                      !.done = @ \cup {"fe0"}]
  /\ UNCHANGED <<users, pc, inbox, offset, err, cycle, hist, nq, aux>>

ApplyIsDustStormCondition ==
  /\ "fe" \notin dq.done
  /\ dq' = [dq EXCEPT !.fe = isDustStormCondition(dq.pm10, dq.aqi),
                      !.done = @ \cup {"fe"}]
  /\ UNCHANGED <<users, pc, inbox, offset, err, cycle, hist, nq, aux>>

SpecDust ==
  InitDust /\ [][ApplyIsDustStorm \/ ApplyIsDustStormCondition0 \/ ApplyIsDustStormCondition]_vars

----------------------------------------------------------------------------
(* Properties of the alert engine (Spec) *)

Runs == 1..Len(hist)
Chat(i, c) == hist[i].chats[c]

\* the run had to notify the chat: its nearest district is in dust-storm
\* condition or at a level other than the stored one
Due(r) == r.resolved /\ (r.dust \/ r.level # r.before)

\* C1: in one run of check_alerts every subscriber active at its start gets
\* exactly one notification if its nearest district is in dust-storm
\* condition or at a level other than its stored last_level, and then
\* last_level becomes that level; otherwise it gets none and its record is
\* unchanged; nobody gets more than one.
C1_OneNotificationPerDueSubscriber ==
  \A i \in Runs, c \in ChatIds :
    LET r == Chat(i, c) IN
    /\ r.sent <= 1
    /\ r.active =>
         IF Due(r) THEN r.sent = 1 /\ r.after = r.level
                   ELSE r.sent = 0 /\ r.after = r.before

\* C2: a subscriber whose stored last_level is L1 and whose nearest district
\* goes from L1 in one cycle to another level L2 in the next, without dust
\* storm, gets exactly one notification in the second cycle and last_level
\* becomes L2; a later cycle with the district still at L2 and no dust storm
\* sends it nothing.
C2_OneNotificationPerTransition ==
  Len(hist) = 2 =>
    \A c \in ChatIds :
      LET r1 == Chat(1, c)
          r2 == Chat(2, c)
      IN /\ ( /\ r1.active /\ r1.resolved /\ r2.active /\ r2.resolved
              /\ r1.level = r2.before
              /\ r2.level # r2.before
              /\ ~r2.dust )
            => (r2.sent = 1 /\ r2.after = r2.level)
         /\ ( /\ r1.active /\ r1.resolved /\ r2.active /\ r2.resolved
              /\ r1.after = r1.level
              /\ r2.level = r1.level
              /\ ~r2.dust )
            => r2.sent = 0

\* C3: in every cycle in which the nearest district of an active subscriber
\* is in dust-storm condition, a notification is dispatched to it, also when
\* the level is the stored one.
C3_DustStormNotifiesEveryCycle ==
  \A i \in Runs, c \in ChatIds :
    LET r == Chat(i, c) IN
    (r.active /\ r.resolved /\ r.dust) => r.sent >= 1

\* C4: a run of check_alerts sends nothing to a subscriber that is inactive
\* when it starts and leaves that subscriber's last_level as it was.
C4_InactiveSkipped ==
  \A i \in Runs, c \in ChatIds :
    LET r == Chat(i, c) IN
    (r.present /\ ~r.active) => (r.sent = 0 /\ r.after = r.before)

\* a run that notified one subscriber and passed over an inactive one whose
\* nearest district called for a notification
C4_Witness ==
  \E i \in Runs, c \in ChatIds, k \in ChatIds :
    /\ Chat(i, c).present /\ ~Chat(i, c).active /\ Due(Chat(i, c))
    /\ Chat(i, c).before # "NULL"
    /\ Chat(i, k).active /\ Chat(i, k).sent = 1 /\ Chat(i, k).outcome = "ok"

\* C5: when the nearest district of an active subscriber cannot be resolved,
\* the run skips the subscriber, sends it nothing, leaves its record as it
\* was and completes.
C5_UnresolvableSkipped ==
  \A i \in Runs, c \in ChatIds :
    LET r == Chat(i, c) IN
    (r.active /\ ~r.resolved) =>
      (r.sent = 0 /\ r.after = r.before /\ hist[i].err = "none")

\* C6: a notification whose delivery fails is not retried in the cycle and
\* does not advance last_level, and it is attempted again in the next cycle.
C6_FailedDeliveryKept ==
  \A i \in Runs, c \in ChatIds :
    LET r == Chat(i, c) IN
    r.outcome \in {"rejected", "raise"} =>
      /\ r.sent = 1
      /\ r.after = r.before
      /\ (i < Len(hist) /\ Chat(i + 1, c).active /\ Chat(i + 1, c).resolved
            /\ Chat(i + 1, c).level = r.level)
           => Chat(i + 1, c).sent = 1

\* C7: when the processing of one subscriber fails, every other active
\* subscriber is still processed in that cycle and main() goes on.
C7_FailureSkipsOneSubscriber ==
  \A i \in Runs :
    hist[i].err # "none" =>
      /\ \A c \in ChatIds :
           LET r == Chat(i, c) IN
           (r.active /\ Due(r) /\ r.outcome # "raise") => r.sent = 1
      /\ (i = Len(hist) => pc # "crashed")

\* C9: resolution against an empty registry ends in the explicit error
\* NoDistrictsLoadedError, and no subscriber record is created or modified.
C9_EmptyRegistryExplicitError ==
  \A i \in Runs :
    (hist[i].empty /\ \E c \in ChatIds : Chat(i, c).active) =>
      /\ hist[i].err = "NoDistrictsLoadedError"
      /\ \A c \in ChatIds : Chat(i, c).after = Chat(i, c).before

----------------------------------------------------------------------------
(* Properties of nearest-district resolution (SpecNearest) *)

\* C8: on a non-empty list of districts that all have coordinates, the three
\* loops return the same district: the first one of the list at minimal
\* distance from the point.
C8_SameNearestEverywhere ==
  ( /\ nq.done = {"hl", "ca", "fe"}
    /\ nq.districts # <<>>
    /\ \A i \in 1..Len(nq.districts) : HasCoordinates(nq.districts[i]) )
  => LET n == NearestIndex(nq.lat, nq.lon, nq.districts) IN
     /\ ~nq.hlRaised /\ nq.hl = n
     /\ ~nq.caRaised /\ nq.ca = n
     /\ nq.fe = n

----------------------------------------------------------------------------
(* Properties of the dust-storm predicates (SpecDust) *)

\* C10: on numbers, is_dust_storm and both isDustStormCondition are true
\* exactly when pm10 >= 300 or aqi >= 200, so they agree with each other.
C10_DustStormPredicate ==
  LET \* pm10 >= 300 or aqi >= 200, on the query
      DustExpected ==
        \/ dq.pm10.t = "num" /\ dq.pm10.v >= 300 * 10
        \/ dq.aqi.t = "num" /\ dq.aqi.v >= 200 * 10
  IN
  /\ "bot" \in dq.done => dq.bot = DustExpected
  /\ "fe0" \in dq.done => dq.fe0 = DustExpected
  /\ "fe" \in dq.done => dq.fe = DustExpected

\* the three applied just below both thresholds: pm10 = 299.9, aqi = 199
C10_Witness ==
  /\ dq.done = {"bot", "fe0", "fe"}
  /\ dq.pm10 = Num(Dec(299, 9))
  /\ dq.aqi = Num(Dec(199, 0))
  /\ ~dq.bot /\ ~dq.fe0 /\ ~dq.fe

----------------------------------------------------------------------------
(* SpecClassify: getAQILevel and getColor of part_001 applied to two        *)
(* concentrations.                                                          *)

\* x <= n in JavaScript: null counts as 0, undefined (NaN) compares false
Leq(x, n) ==
  \/ x.t = "num" /\ x.v <= Dec(n, 0)
  \/ x.t = "none" /\ 0 <= n

\* getAQILevel with the classes of 150 and 300 exchanged
getAQILevel_swapped(pm10) ==
  IF Leq(pm10, 50) THEN "Good"
  ELSE IF Leq(pm10, 100) THEN "Moderate"
  ELSE IF Leq(pm10, 150) THEN "Very Unhealthy"
  ELSE IF Leq(pm10, 300) THEN "Unhealthy"
  ELSE "Hazardous"

getAQILevel(pm10) ==
  IF Leq(pm10, 50) THEN "Good"
  ELSE IF Leq(pm10, 100) THEN "Moderate"
  ELSE IF Leq(pm10, 150) THEN "Unhealthy"
  ELSE IF Leq(pm10, 300) THEN "Very Unhealthy"
  ELSE "Hazardous"

getColor(pm10) ==
  IF Leq(pm10, 50) THEN "#2ecc71"
  ELSE IF Leq(pm10, 100) THEN "#f1c40f"
  ELSE IF Leq(pm10, 150) THEN "#e67e22"
  ELSE IF Leq(pm10, 300) THEN "#e74c3c"
  ELSE "#8e44ad"

\* d.dust_final as loadData() copies it to pm10_now: tenths around each
\* threshold, 0, a large value, null and undefined
Concentrations ==
  {Num(Dec(t, 0) + k) : t \in {50, 100, 150, 300}, k \in -Spread..Spread}
  \cup {Num(0), Num(Dec(999, 9)), None, NaN}

InitClassify ==
  /\ BotIdle
  /\ chk = Idle /\ file = Idle /\ menu = Idle
  /\ nq = NqIdle
  /\ dq = DqIdle
  /\ popup = Idle
  /\ view = Idle
  /\ pipe = Idle
  /\ store = Idle
  /\ cmd = Idle
  /\ \E a \in Concentrations, b \in Concentrations :
       cq = [CqIdle EXCEPT !.c1 = a, !.c2 = b]

ApplyGetAQILevel ==
  /\ "level" \notin cq.done
  /\ cq' = [cq EXCEPT !.level1 = getAQILevel(cq.c1), !.level2 = getAQILevel(cq.c2),
                      !.done = @ \cup {"level"}]
  /\ UNCHANGED <<botVars, nq, dq, popup, view, pipe, store, cmd, chk, file, menu>>

ApplyGetColor ==
  /\ "color" \notin cq.done
  /\ cq' = [cq EXCEPT !.color1 = getColor(cq.c1), !.color2 = getColor(cq.c2),
                      !.done = @ \cup {"color"}]
  /\ UNCHANGED <<botVars, nq, dq, popup, view, pipe, store, cmd, chk, file, menu>>

SpecClassify ==
  InitClassify /\ [][ApplyGetAQILevel \/ ApplyGetColor]_vars

\* C11: for two concentrations C1 < C2 the level getAQILevel gives C1 is at
\* most as severe as the level it gives C2, and the same holds for the
\* colours of getColor.
C11_ClassificationMonotonic ==
  LET \* severity of a level name and of a colour of the scale, 0 for anything else
      LevelSeverity(l) ==
        CASE l = "Good" -> 1 [] l = "Moderate" -> 2 [] l = "Unhealthy" -> 3
          [] l = "Very Unhealthy" -> 4 [] l = "Hazardous" -> 5 [] OTHER -> 0
      ColorSeverity(c) ==
        CASE c = "#2ecc71" -> 1 [] c = "#f1c40f" -> 2 [] c = "#e67e22" -> 3
          [] c = "#e74c3c" -> 4 [] c = "#8e44ad" -> 5 [] OTHER -> 0
  IN
  (cq.c1.t = "num" /\ cq.c2.t = "num" /\ cq.c1.v < cq.c2.v) =>
    /\ "level" \in cq.done =>
         /\ LevelSeverity(cq.level1) >= 1
         /\ LevelSeverity(cq.level1) <= LevelSeverity(cq.level2)
    /\ "color" \in cq.done =>
         /\ ColorSeverity(cq.color1) >= 1
         /\ ColorSeverity(cq.color1) <= ColorSeverity(cq.color2)

\* both functions applied to 150.0 and 150.1, which fall in different classes
C11_Witness ==
  /\ cq.done = {"level", "color"}
  /\ cq.c1 = Num(Dec(150, 0))
  /\ cq.c2 = Num(Dec(150, 1))
  /\ cq.level1 = "Unhealthy" /\ cq.level2 = "Very Unhealthy"
  /\ cq.color1 = "#e67e22" /\ cq.color2 = "#e74c3c"

----------------------------------------------------------------------------
(* SpecPopup: buildDistrictPopup of js/main.js and of part_000 applied to   *)
(* one district of pm10_alerts.json.                                        *)

\* the forecast fields of a district, pm10_forecast_3h .. pm10_forecast_24h
Horizons == 8

\* a forecast of the snapshot for horizon 3h hours; its timestamp is kept as
\* the hours after the reference time
Forecast(h, value, aqi) ==
  [t |-> "point", value |-> value, aqi |-> aqi, timestamp |-> 3 * h]
\* a forecast field that is undefined or null
NoForecast == [t |-> "none", value |-> None, aqi |-> None, timestamp |-> 0]

\* a district as the front end reads it: d.pm10.now, d.pm10.mean_24h,
\* d.aqi.value and the eight forecast fields
FeDistrict(id, lat, lon, now, mean, aqi, fc) ==
  [district_id |-> id, latitude |-> lat, longitude |-> lon,
   now |-> now, mean_24h |-> mean, aqi |-> aqi, fc |-> fc]

\* text of the popup: a number as printed, and a text that is no number
\* ("N/A", "null" as a template prints null, "" where nothing is shown)
Text(v) == [text |-> "number", v |-> v]
Marker(m) == [text |-> m, v |-> 0]

\* x ?? 0
NullishZero(x) == IF x.t = "none" THEN Num(0) ELSE x

\* typeof x === 'number'
IsNumber(x) == x.t \in {"num", "nan"}

\* x.toFixed(1) of a number kept in tenths
toFixed1(x) == Text(x.v)
\* x.toFixed(0) of a number kept in tenths: the nearest whole number
toFixed0(x) == Text(((x.v + 5) \div 10) * 10)

\* a filter that keeps every field
KeepEveryField(f) == TRUE
\* the filter of js/main.js on a forecast field
KeepForecast(f) == f.t = "point" /\ IsNumber(f.value) /\ IsNumber(f.aqi)
\* buildDistrictPopup of js/main.js
buildDistrictPopup(d) ==
  LET pm10Now == NullishZero(d.now)
      mean24h == NullishZero(d.mean_24h)
      aqiValue == NullishZero(d.aqi)
      forecasts == SelectSeq(d.fc, KeepForecast)
  IN [raised |-> FALSE,
      pm10Now |-> toFixed1(pm10Now),
      aqi |-> Text(aqiValue.v),
      mean24h |-> toFixed1(mean24h),
      forecasts |-> [i \in 1..Len(forecasts) |->
                      [timestamp |-> forecasts[i].timestamp,
                       aqi |-> Text(OrZero(forecasts[i].aqi).v),
                       value |-> toFixed0(OrZero(forecasts[i].value))]]]

\* buildDistrictPopup of part_000: filter(Boolean), no default, .toFixed of
\* a missing value raises TypeError
buildDistrictPopup0(d) ==
  LET forecasts == SelectSeq(d.fc, LAMBDA f : f.t = "point")
      raises == \/ \E i \in 1..Len(forecasts) : forecasts[i].value.t # "num"
                \/ d.now.t # "num"
                \/ d.mean_24h.t # "num"
  IN IF raises
     THEN [raised |-> TRUE, pm10Now |-> Marker(""), aqi |-> Marker(""),
           mean24h |-> Marker(""), forecasts |-> <<>>]
     ELSE [raised |-> FALSE,
           pm10Now |-> toFixed1(d.now),
           aqi |-> IF d.aqi.t = "num" THEN Text(d.aqi.v) ELSE Marker("null"),
           mean24h |-> toFixed1(d.mean_24h),
           forecasts |-> [i \in 1..Len(forecasts) |->
                           [timestamp |-> forecasts[i].timestamp,
                            aqi |-> IF forecasts[i].aqi.t = "num"
                                    THEN Text(forecasts[i].aqi.v) ELSE Marker("null"),
                            value |-> toFixed0(forecasts[i].value)]]]

\* the forecast fields of a district: fc[h] says what field h holds
ForecastFields(kinds) ==
  [h \in 1..Horizons |->
     CASE kinds[h] = "point" -> Forecast(h, Num(Dec(40 + 10 * h, 4)), Num(Dec(60 + h, 0)))
       [] kinds[h] = "zero" -> Forecast(h, Num(0), Num(0))
       [] OTHER -> NoForecast]
AllForecasts == ForecastFields([h \in 1..Horizons |-> "point"])

\* the districts given to buildDistrictPopup: every presence of the three
\* readings (zero, a value, absent) with all forecasts, and every choice of
\* forecast fields with all readings
PopupDistricts ==
  LET readings == {Num(0), Num(Dec(85, 5)), None} IN
  {FeDistrict("d1", Num(33), Num(44), now, mean, aqi, AllForecasts) :
     now \in readings, mean \in readings, aqi \in {Num(Dec(120, 0)), None}}
  \cup {FeDistrict("d1", Num(33), Num(44), Num(Dec(85, 5)), Num(Dec(70, 0)),
                   Num(Dec(120, 0)), ForecastFields(k)) :
          k \in [1..Horizons -> {"none", "point", "zero"}]}

InitPopup ==
  /\ BotIdle
  /\ chk = Idle /\ file = Idle /\ menu = Idle
  /\ nq = NqIdle
  /\ dq = DqIdle
  /\ cq = CqIdle
  /\ view = Idle
  /\ pipe = Idle
  /\ store = Idle
  /\ cmd = Idle
  /\ \E d \in PopupDistricts :
       LET none == [raised |-> FALSE, pm10Now |-> Marker(""), aqi |-> Marker(""),
                    mean24h |-> Marker(""), forecasts |-> <<>>]
       IN popup = [d |-> d, done |-> {}, js |-> none, p0 |-> none]

BuildDistrictPopup ==
  /\ "js" \notin popup.done
  /\ popup' = [popup EXCEPT !.js = buildDistrictPopup(popup.d), !.done = @ \cup {"js"}]
  /\ UNCHANGED <<botVars, nq, dq, cq, view, pipe, store, cmd, chk, file, menu>>

BuildDistrictPopup0 ==
  /\ "p0" \notin popup.done
  /\ popup' = [popup EXCEPT !.p0 = buildDistrictPopup0(popup.d), !.done = @ \cup {"p0"}]
  /\ UNCHANGED <<botVars, nq, dq, cq, view, pipe, store, cmd, chk, file, menu>>

SpecPopup ==
  InitPopup /\ [][BuildDistrictPopup \/ BuildDistrictPopup0]_vars

\* C12: in the popup of js/main.js an absent current reading or 24-hour mean
\* is shown as "N/A", never as a number.
C12_AbsentShownAsNA ==
  LET ShownOrNA(x) == IF x.t = "none" THEN Marker("N/A") ELSE Text(x.v) IN
  "js" \in popup.done =>
    /\ popup.js.pm10Now = ShownOrNA(popup.d.now)
    /\ popup.js.mean24h = ShownOrNA(popup.d.mean_24h)

\* C14: the forecast sequence of a popup (js/main.js and part_000) has at
\* most 8 points in strictly ascending horizon order and has a point for a
\* horizon exactly when the snapshot holds a forecast for it, showing that
\* forecast; a missing horizon is omitted, never shown as a zero or made-up
\* point.
C14_ForecastPointsAsSnapshot ==
  LET fc == popup.d.fc
      AsSnapshot(ps) ==
        /\ Len(ps) <= 8
        /\ \A i \in 1..Len(ps) - 1 : ps[i].timestamp < ps[i + 1].timestamp
        /\ \A h \in 1..Horizons :
             (\E i \in 1..Len(ps) : ps[i].timestamp = 3 * h) <=> fc[h].t = "point"
        /\ \A i \in 1..Len(ps) :
             \E h \in 1..Horizons :
               /\ fc[h].t = "point"
               /\ ps[i].timestamp = fc[h].timestamp
               /\ ps[i].aqi = Text(fc[h].aqi.v)
               /\ ps[i].value = toFixed0(fc[h].value)
  IN
  /\ "js" \in popup.done => AsSnapshot(popup.js.forecasts)
  /\ ("p0" \in popup.done /\ ~popup.p0.raised) => AsSnapshot(popup.p0.forecasts)

\* both popups built for a district with the 6h forecast missing and a
\* forecast of 0 at 15h: seven points, the 15h one among them
C14_Witness ==
  /\ popup.done = {"js", "p0"}
  /\ ~popup.p0.raised
  /\ popup.d.fc[2].t = "none"
  /\ popup.d.fc[5] = Forecast(5, Num(0), Num(0))
  /\ Len(popup.js.forecasts) = 7 /\ Len(popup.p0.forecasts) = 7
  /\ popup.js.forecasts[4].timestamp = 15
  /\ popup.js.forecasts[4].value = Text(0)

----------------------------------------------------------------------------
(* SpecView: loadPM10Alerts of js/main.js on one fetched pm10_alerts.json,  *)
(* and the search box and the view-all button of the page.  Texts are       *)
(* sequences of characters.                                                 *)

MAX_VISIBLE_DISTRICTS == 15

\* the districts a snapshot is made of: complete ones with a high and a low
\* AQI, one without AQI, one without current reading, one without coordinates
ViewDistrict(id, kind) ==
  CASE kind = "high" ->
         FeDistrict(id, Num(33), Num(44), Num(Dec(260, 0)), Num(Dec(200, 0)),
                    Num(Dec(160, 0)), AllForecasts)
    [] kind = "low" ->
         FeDistrict(id, Num(33), Num(46), Num(Dec(40, 0)), Num(Dec(45, 5)),
                    Num(Dec(37, 0)), AllForecasts)
    [] kind = "noAqi" ->
         FeDistrict(id, Num(34), Num(45), Num(Dec(85, 5)), Num(Dec(70, 0)),
                    None, AllForecasts)
    [] kind = "noNow" ->
         FeDistrict(id, Num(34), Num(45), None, Num(Dec(70, 0)),
                    Num(Dec(80, 0)), AllForecasts)
    [] OTHER ->
         FeDistrict(id, None, None, Num(Dec(85, 5)), Num(Dec(70, 0)),
                    Num(Dec(80, 0)), AllForecasts)

\* the districts arrays of a fetched document, up to MaxLen + 1 districts,
\* and arrays of MAX_VISIBLE_DISTRICTS + 2 districts that differ in the
\* second one; district i has district_id i
ViewSnapshots ==
  UNION {{[i \in 1..n |-> ViewDistrict(i, k[i])] :
            k \in [1..n -> {"high", "low", "noAqi", "noNow", "noCoords"}]} :
           n \in 0..(MaxLen + 1)}
  \cup {[i \in 1..(MAX_VISIBLE_DISTRICTS + 2) |->
          ViewDistrict(i, IF i = 2 THEN k ELSE IF i % 2 = 0 THEN "high" ELSE "low")] :
          k \in {"high", "low", "noAqi", "noNow", "noCoords"}}

\* hasCoords of loadPM10Alerts
HasCoords(d) == Truthy(d.latitude) /\ Truthy(d.longitude)
\* the filter of loadPM10Alerts: hasCoords, hasAQI and hasPM10
IsValidDistrict(d) == HasCoords(d) /\ IsNumber(d.aqi) /\ IsNumber(d.now)

\* validDistricts.sort((a, b) => (b.aqi.value || 0) - (a.aqi.value || 0)):
\* a stable sort, highest AQI first (insertion of d into a sorted list)
RECURSIVE InsertByAqi(_, _)
InsertByAqi(sorted, d) ==
  IF sorted = <<>> THEN <<d>>
  ELSE IF OrZero(Head(sorted).aqi).v >= OrZero(d.aqi).v
       THEN <<Head(sorted)>> \o InsertByAqi(Tail(sorted), d)
       ELSE <<d>> \o sorted
RECURSIVE SortByAqi(_, _)
SortByAqi(ds, i) ==
  IF i = 0 THEN <<>> ELSE InsertByAqi(SortByAqi(ds, i - 1), ds[i])

\* drawDistrictMarkers: one marker with its popup per district with coordinates
RECURSIVE drawDistrictMarkers(_, _)
drawDistrictMarkers(ds, i) ==
  IF i > Len(ds) THEN <<>>
  ELSE IF ~Truthy(ds[i].latitude) \/ ~Truthy(ds[i].longitude)
       THEN drawDistrictMarkers(ds, i + 1)
       ELSE <<[district_id |-> ds[i].district_id, popup |-> buildDistrictPopup(ds[i])]>>
            \o drawDistrictMarkers(ds, i + 1)

\* the callback of districts.filter in renderDistrictList: the names of d
\* include filter.toLowerCase().trim(), or that is empty.  The district is
\* named "q"; its province is "bag" for the first MAX_VISIBLE_DISTRICTS + 1
\* district_ids and "bas" for the others.
Matches(d, filter) ==
  LET lower == [i \in 1..Len(filter) |-> IF filter[i] = "A" THEN "a" ELSE filter[i]]
      ink == {i \in 1..Len(lower) : lower[i] # " "}
      searchTerm == IF ink = {} THEN <<>>
                    ELSE SubSeq(lower, CHOOSE i \in ink : \A j \in ink : i <= j,
                                       CHOOSE i \in ink : \A j \in ink : i >= j)
      includes(name) == \E i \in 0..(Len(name) - Len(searchTerm)) :
                          SubSeq(name, i + 1, i + Len(searchTerm)) = searchTerm
      province_name == IF d.district_id <= MAX_VISIBLE_DISTRICTS + 1
                       THEN <<"b", "a", "g">> ELSE <<"b", "a", "s">>
  IN searchTerm = <<>> \/ includes(<<"q">>) \/ includes(province_name)

\* updateViewAllButton(total): the page v with the button hidden, or shown
\* with its click handler set
updateViewAllButton(v, total) ==
  IF total <= MAX_VISIBLE_DISTRICTS
  THEN [v EXCEPT !.button = "none"]
  ELSE [v EXCEPT !.button = "block", !.onclick = TRUE]

\* renderDistrictList that cuts the list whatever showAllDistricts is
renderDistrictList_slices(v, districts, filter) ==
  LET filtered == SelectSeq(districts, LAMBDA d : Matches(d, filter))
      visible == IF Len(filtered) <= MAX_VISIBLE_DISTRICTS THEN filtered
                 ELSE SubSeq(filtered, 1, MAX_VISIBLE_DISTRICTS)
  IN updateViewAllButton(
       [v EXCEPT !.list = [i \in 1..Len(visible) |->
                             [district_id |-> visible[i].district_id,
                              aqi |-> Text(NullishZero(visible[i].aqi).v)]],
                 !.rendered = [districts |-> districts, filter |-> filter]],
       Len(filtered))

\* renderDistrictList(districts, filter): the page v with the list replaced
\* by the matching districts, the first MAX_VISIBLE_DISTRICTS of them unless
\* showAllDistricts, each with its AQI text, and the button updated
renderDistrictList(v, districts, filter) ==
  LET filtered == SelectSeq(districts, LAMBDA d : Matches(d, filter))
      visible == IF v.showAllDistricts \/ Len(filtered) <= MAX_VISIBLE_DISTRICTS
                 THEN filtered
                 ELSE SubSeq(filtered, 1, MAX_VISIBLE_DISTRICTS)
  IN updateViewAllButton(
       [v EXCEPT !.list = [i \in 1..Len(visible) |->
                             [district_id |-> visible[i].district_id,
                              aqi |-> Text(NullishZero(visible[i].aqi).v)]],
                 !.rendered = [districts |-> districts, filter |-> filter]],
       Len(filtered))

InitView ==
  /\ BotIdle
  /\ chk = Idle /\ file = Idle /\ menu = Idle
  /\ nq = NqIdle
  /\ dq = DqIdle
  /\ cq = CqIdle
  /\ popup = Idle
  /\ pipe = Idle
  /\ store = Idle
  /\ cmd = Idle
  /\ \E ds \in ViewSnapshots :
       view = [phase |-> "init", districts |-> ds, pm10Data |-> <<>>,
               markers |-> <<>>, list |-> <<>>, error |-> "",
               showAllDistricts |-> FALSE,
               search |-> <<>>, button |-> "html", onclick |-> FALSE,
               rendered |-> [districts |-> <<>>, filter |-> <<>>],
               last |-> "none", clicked |-> FALSE]

\* loadPM10Alerts, the document fetched
LoadPM10Alerts ==
  /\ view.phase = "init"
  /\ LET validDistricts == SelectSeq(view.districts, IsValidDistrict)
         sorted == SortByAqi(validDistricts, Len(validDistricts))
     IN IF validDistricts = <<>>
        THEN view' = [view EXCEPT !.phase = "failed",
                                  !.pm10Data = view.districts,
                                  !.error = "No valid district data found",
                                  !.last = "load"]
        ELSE view' = renderDistrictList(
                       [view EXCEPT !.phase = "loaded",
                                    !.pm10Data = view.districts,
                                    !.markers = drawDistrictMarkers(sorted, 1),
                                    !.last = "load"],
                       sorted, <<>>)
  /\ UNCHANGED <<botVars, nq, dq, cq, popup, pipe, store, cmd, chk, file, menu>>

\* loadPM10Alerts, the fetch answered with an HTTP error
LoadPM10AlertsHttpError ==
  /\ view.phase = "init"
  /\ view' = [view EXCEPT !.phase = "failed", !.error = "HTTP", !.last = "load"]
  /\ UNCHANGED <<botVars, nq, dq, cq, popup, pipe, store, cmd, chk, file, menu>>

\* the input listener of setupSearch: the user changes the text of the
\* search box; nothing is rendered while pm10Data is null
SearchInput ==
  /\ view.phase # "idle"
  /\ \E text \in {<<>>, <<"A", "g">>, <<"a", "s", " ">>, <<"z">>} :
       /\ text # view.search
       /\ LET v == [view EXCEPT !.search = text, !.last = "search"] IN
          view' = IF view.phase = "init" \/ view.error = "HTTP" THEN v
                  ELSE renderDistrictList(v, view.pm10Data, text)
  /\ UNCHANGED <<botVars, nq, dq, cq, popup, pipe, store, cmd, chk, file, menu>>

\* btn.onclick of updateViewAllButton: a click on the button while it is shown
ViewAllClick ==
  /\ view.phase # "idle"
  /\ view.button = "block"
  /\ view.onclick
  /\ view' = renderDistrictList(
               [view EXCEPT !.showAllDistricts = ~view.showAllDistricts,
                            !.last = "click", !.clicked = view.showAllDistricts],
               view.pm10Data, view.search)
  /\ UNCHANGED <<botVars, nq, dq, cq, popup, pipe, store, cmd, chk, file, menu>>

SpecView ==
  InitView /\ [][LoadPM10Alerts \/ LoadPM10AlertsHttpError \/ SearchInput \/ ViewAllClick]_vars

\* C13: once the fetched snapshot is handled, every district of it that has
\* coordinates has a marker on the map and, where the list is not cut at
\* MAX_VISIBLE_DISTRICTS, an entry in the district list, whether or not its
\* current reading or AQI is missing.
C13_NoDistrictDropped ==
  LET Ids(entries) == {entries[i].district_id : i \in 1..Len(entries)} IN
  (view.last = "load" /\ view.error # "HTTP") =>
    \A i \in 1..Len(view.districts) :
      HasCoords(view.districts[i]) =>
        /\ view.districts[i].district_id \in Ids(view.markers)
        /\ Len(view.districts) <= MAX_VISIBLE_DISTRICTS =>
             view.districts[i].district_id \in Ids(view.list)

\* C27: after a rendering of the list, with M the number of districts handed
\* to it that match the filter, the list has M items if showAllDistricts and
\* min(M, MAX_VISIBLE_DISTRICTS) otherwise, and the button is shown exactly
\* if M > MAX_VISIBLE_DISTRICTS; a click on the button has flipped
\* showAllDistricts and rendered pm10Data.districts with the text of the
\* search box.
C27_ListLengthAndButton ==
  LET ds == view.rendered.districts
      M == Cardinality({i \in 1..Len(ds) : Matches(ds[i], view.rendered.filter)})
  IN (view.phase # "idle" /\ view.button # "html") =>
       /\ Len(view.list) = IF view.showAllDistricts \/ M <= MAX_VISIBLE_DISTRICTS
                            THEN M ELSE MAX_VISIBLE_DISTRICTS
       /\ (view.button = "block") <=> (M > MAX_VISIBLE_DISTRICTS)
       /\ view.last = "click" =>
            /\ view.showAllDistricts = ~view.clicked
            /\ view.rendered = [districts |-> view.pm10Data, filter |-> view.search]

\* the button was clicked while the search box held "Ag": all 16 districts
\* of the province are listed and the button stays
C27_Witness ==
  /\ view.phase = "loaded"
  /\ view.last = "click"
  /\ view.showAllDistricts
  /\ view.search = <<"A", "g">>
  /\ Len(view.list) = MAX_VISIBLE_DISTRICTS + 1
  /\ view.button = "block"

\* C28: once the snapshot is loaded, the list is in descending order of AQI
\* and holds only districts that passed the validation of loadPM10Alerts.
C28_ListSortedAndValid ==
  view.phase = "loaded" =>
    /\ \A i \in 1..Len(view.list) :
         IsValidDistrict(view.districts[view.list[i].district_id])
    /\ \A i, j \in 1..Len(view.list) :
         i < j => view.list[i].aqi.v >= view.list[j].aqi.v

\* C30: while the snapshot is not loaded, or its load has failed, no event
\* puts a district into the list; and the load, when it completes, renders
\* the valid districts with an empty filter whatever happened before.
C30_EventsOutsideLoad ==
  /\ view.phase \in {"init", "failed"} => view.list = <<>>
  /\ (view.phase = "loaded" /\ view.last = "load") =>
       /\ view.rendered.filter = <<>>
       /\ Len(view.rendered.districts)
            = Cardinality({i \in 1..Len(view.districts) : IsValidDistrict(view.districts[i])})

----------------------------------------------------------------------------
(* SpecPipeline: the pipeline scripts of codes/, run by cron one run after  *)
(* the other.  A script is its sequence of commands; "checked" says that    *)
(* the command is followed by  if [ $? -ne 0 ]; then ... exit 1.            *)

Command(step, checked) == [step |-> step, checked |-> checked]
\* codes/modi_run_realtime_IRQ_csv_json_dust.sh
ModiScript ==
  <<Command("backfill", TRUE), Command("realtime", TRUE), Command("rolling", TRUE)>>
\* codes/run_create_realtime_database_full_grid.sh: RUN 1 and RUN 2, then the
\* appended second script, whose three steps are not followed by a test
FullGridScript ==
  <<Command("download", TRUE), Command("database", TRUE),
    Command("backfill", FALSE), Command("realtime", FALSE), Command("rolling", FALSE)>>
\* codes/archive/run_realtime_IRQ_csv_json_dust.sh
ArchiveScript ==
  <<Command("realtime", FALSE), Command("rolling", FALSE)>>

Scripts == {ModiScript, FullGridScript, ArchiveScript}

\* the shell after the command at pc ended with exit status ok / not ok.
\* A step that succeeded has written its --output (realtime: pm10_now.json,
\* rolling: pm10_alerts.json); one that failed has left its output alone.
AfterCommand(p, ok) ==
  LET c == p.script[p.pc]
      q == [p EXCEPT !.ran = Append(@, [step |-> c.step, ok |-> ok]),
                     !.now = IF ok /\ c.step = "realtime" THEN p.run ELSE @,
                     !.alerts = IF ok /\ c.step = "rolling" THEN p.run ELSE @]
  IN IF ~ok /\ c.checked THEN [q EXCEPT !.status = "exit1"]
     ELSE IF p.pc = Len(p.script) THEN [q EXCEPT !.status = "done"]
     ELSE [q EXCEPT !.pc = p.pc + 1]

InitPipeline ==
  /\ BotIdle
  /\ chk = Idle /\ file = Idle /\ menu = Idle
  /\ nq = NqIdle
  /\ dq = DqIdle
  /\ cq = CqIdle
  /\ popup = Idle
  /\ view = Idle
  /\ store = Idle
  /\ cmd = Idle
  /\ \E script \in Scripts :
       pipe = [script |-> script, run |-> 1, pc |-> 1, status |-> "running",
               ran |-> <<>>, now |-> 0, alerts |-> 0,
               nowBefore |-> 0, alertsBefore |-> 0]

StepSucceeds ==
  /\ pipe.status = "running"
  /\ pipe' = AfterCommand(pipe, TRUE)
  /\ UNCHANGED <<botVars, nq, dq, cq, popup, view, store, cmd, chk, file, menu>>

StepFails ==
  /\ pipe.status = "running"
  /\ pipe' = AfterCommand(pipe, FALSE)
  /\ UNCHANGED <<botVars, nq, dq, cq, popup, view, store, cmd, chk, file, menu>>

\* cron starts the script again
StartRun ==
  /\ pipe.status \in {"exit1", "done"}
  /\ pipe.run < MaxRuns
  /\ pipe' = [pipe EXCEPT !.run = @ + 1, !.pc = 1, !.status = "running", !.ran = <<>>,
                          !.nowBefore = pipe.now, !.alertsBefore = pipe.alerts]
  /\ UNCHANGED <<botVars, nq, dq, cq, popup, view, store, cmd, chk, file, menu>>

SpecPipeline ==
  InitPipeline /\ [][StepSucceeds \/ StepFails \/ StartRun]_vars

\* C15: in every run of every pipeline script a step runs only after all
\* steps before it succeeded, and the snapshot steps come in the order
\* backfill, 'now' snapshot, rolling means/alerts snapshot.
C15_StepsInOrderStopOnFailure ==
  LET RanOk(s, n) == \E i \in 1..n : pipe.ran[i].step = s /\ pipe.ran[i].ok IN
  \A j \in 1..Len(pipe.ran) :
    /\ \A i \in 1..(j - 1) : pipe.ran[i].ok
    /\ pipe.ran[j].step = "realtime" => RanOk("backfill", j - 1)
    /\ pipe.ran[j].step = "rolling" => RanOk("realtime", j - 1)

\* C16: a run in which a step failed has replaced neither pm10_now.json nor
\* pm10_alerts.json: both are the files the run found.
C16_FailedRunPublishesNothing ==
  (\E i \in 1..Len(pipe.ran) : ~pipe.ran[i].ok) =>
    /\ pipe.now = pipe.nowBefore
    /\ pipe.alerts = pipe.alertsBefore

----------------------------------------------------------------------------
(* SpecStore: the Hourly Store (databases/district_pm10_hourly.sqlite),     *)
(* written by backfill_district_pm10.py --hours 72.  The table is a         *)
(* sequence of readings; append and backfill follow section 4.3.            *)

StoreDistricts == {1, 2}
Reading(d, t, c) == [district_id |-> d, timestamp |-> t, concentration |-> c]
SameKey(r, q) == r.district_id = q.district_id /\ r.timestamp = q.timestamp

\* an append that inserts without looking for the key
append_insert(rows, r) == Append(rows, r)

\* append(reading): the reading replaces the one of the same key
append(rows, r) == Append(SelectSeq(rows, LAMBDA q : ~SameKey(q, r)), r)

\* the keys a backfill visits, district by district, hour by hour
RECURSIVE BackfillKeys(_, _)
BackfillKeys(d, t) ==
  IF d > Cardinality(StoreDistricts) THEN <<>>
  ELSE IF t > MaxHours THEN BackfillKeys(d + 1, 1)
       ELSE <<[district_id |-> d, timestamp |-> t]>> \o BackfillKeys(d, t + 1)

\* backfill(hours): every district and hour is sampled from the grid and
\* the sample, unless it is MissingData, appended
RECURSIVE backfill(_, _, _, _)
backfill(rows, grid, keys, i) ==
  IF i > Len(keys) THEN rows
  ELSE LET k == keys[i]
           c == grid[k.district_id][k.timestamp]
       IN backfill(IF c.t = "none" THEN rows
                   ELSE append(rows, Reading(k.district_id, k.timestamp, c.v)),
                   grid, keys, i + 1)

\* the grid data: for each district and hour a sample or MissingData
Grids ==
  [StoreDistricts -> [(1..MaxHours) -> {None, Num(Dec(120, 5))}]]

InitStore ==
  /\ BotIdle
  /\ chk = Idle /\ file = Idle /\ menu = Idle
  /\ nq = NqIdle
  /\ dq = DqIdle
  /\ cq = CqIdle
  /\ popup = Idle
  /\ view = Idle
  /\ pipe = Idle
  /\ cmd = Idle
  /\ \E g \in Grids :
       store = [grid |-> g, rows |-> <<>>, ops |-> 0,
                last |-> [op |-> "none", r |-> Reading(0, 0, 0)],
                prev |-> [op |-> "none", r |-> Reading(0, 0, 0)],
                prevRows |-> <<>>]

StoreAppend ==
  /\ store.ops < MaxOps
  /\ \E d \in StoreDistricts, t \in (1..MaxHours), c \in {Dec(120, 5), Dec(310, 0)} :
       store' = [store EXCEPT !.rows = append(store.rows, Reading(d, t, c)),
                              !.ops = @ + 1,
                              !.last = [op |-> "append", r |-> Reading(d, t, c)],
                              !.prev = store.last,
                              !.prevRows = store.rows]
  /\ UNCHANGED <<botVars, nq, dq, cq, popup, view, pipe, cmd, chk, file, menu>>

StoreBackfill ==
  /\ store.ops < MaxOps
  /\ store' = [store EXCEPT !.rows = backfill(store.rows, store.grid, BackfillKeys(1, 1), 1),
                            !.ops = @ + 1,
                            !.last = [op |-> "backfill", r |-> Reading(0, 0, 0)],
                            !.prev = store.last,
                            !.prevRows = store.rows]
  /\ UNCHANGED <<botVars, nq, dq, cq, popup, view, pipe, cmd, chk, file, menu>>

SpecStore ==
  InitStore /\ [][StoreAppend \/ StoreBackfill]_vars

\* C17: the store never holds two readings of one (district_id, timestamp);
\* after an append the key's only reading is the one just written; a backfill
\* right after a backfill over the same grid leaves the readings as they were.
C17_OneReadingPerKey ==
  LET RowSet(rows) == {rows[i] : i \in 1..Len(rows)} IN
  /\ \A i, j \in 1..Len(store.rows) :
       SameKey(store.rows[i], store.rows[j]) => i = j
  /\ store.last.op = "append" =>
       /\ Cardinality({i \in 1..Len(store.rows) : SameKey(store.rows[i], store.last.r)}) = 1
       /\ store.last.r \in RowSet(store.rows)
  /\ (store.last.op = "backfill" /\ store.prev.op = "backfill") =>
       /\ RowSet(store.rows) = RowSet(store.prevRows)
       /\ Len(store.rows) = Len(store.prevRows)

\* after a backfill that stored readings, one key appended twice with
\* different concentrations: the store holds the second one only
C17_Witness ==
  LET RowSet(rows) == {rows[i] : i \in 1..Len(rows)} IN
  /\ store.last.op = "append" /\ store.prev.op = "append"
  /\ SameKey(store.last.r, store.prev.r)
  /\ store.last.r.concentration # store.prev.r.concentration
  /\ Len(store.rows) > 1
  /\ store.prev.r \in RowSet(store.prevRows)
  /\ store.last.r \in RowSet(store.rows)
  /\ store.prev.r \notin RowSet(store.rows)

----------------------------------------------------------------------------
(* The subscriber records (users table) under Spec *)

C19_LastLevelOnlyByCheckAlerts ==
  [][ LET \* last_level of chat c ("NULL" while it has no record)
          LastLevel(tbl, c) == IF c \in DOMAIN tbl THEN tbl[c].last_level ELSE "NULL"
          \* this step is a run of check_alerts
          RunsCheckAlerts == pc = "handle" /\ inbox = <<>> /\ cycle' = cycle + 1
      IN (\E c \in ChatIds : LastLevel(users', c) # LastLevel(users, c)) => RunsCheckAlerts
    ]_vars

\* a record that was alerted and then stopped and switched to English still
\* has its last_level
C19_Witness ==
  \E c \in DOMAIN users :
    /\ users[c].last_level # "NULL"
    /\ users[c].active = 0
    /\ users[c].lang = "en"
    /\ hist # <<>> /\ Chat(Len(hist), c).active /\ Chat(Len(hist), c).sent = 1

----------------------------------------------------------------------------
(* SpecCommands: handle_stop, handle_resume and handle_status applied to a  *)
(* users table, with the text each sends.                                   *)

\* handle_status: the message sent to chat_id (f"{row[1]}" prints a NULL
\* last_level as None)
handle_status(tbl, chat_id) ==
  IF chat_id \notin DOMAIN tbl
  THEN [text |-> "not registered", district_id |-> "", last_level |-> "", status |-> ""]
  ELSE [text |-> "status",
        district_id |-> tbl[chat_id].district_id,
        last_level |-> IF tbl[chat_id].last_level = "NULL" THEN "None"
                       ELSE tbl[chat_id].last_level,
        status |-> IF tbl[chat_id].active # 0 THEN "on" ELSE "off"]

\* handle_stop and handle_resume: the table after the UPDATE
handle_stop(tbl, chat_id) == SetActive(tbl, chat_id, 0)
handle_resume(tbl, chat_id) == SetActive(tbl, chat_id, 1)

\* rows and tables the commands are applied to
CmdTables ==
  LET rows == {[NewRow(33, 44, "d1") EXCEPT !.last_level = l, !.active = a, !.lang = g] :
                 l \in {"NULL", "moderate"}, a \in {0, 1}, g \in {"ar", "en"}}
  IN UNION {[S -> rows] : S \in SUBSET ChatIds}

NoReply == [text |-> "", district_id |-> "", last_level |-> "", status |-> ""]

InitCommands ==
  /\ BotIdle
  /\ chk = Idle /\ file = Idle /\ menu = Idle
  /\ nq = NqIdle
  /\ dq = DqIdle
  /\ cq = CqIdle
  /\ popup = Idle
  /\ view = Idle
  /\ pipe = Idle
  /\ store = Idle
  /\ \E tbl \in CmdTables :
       cmd = [tbl |-> tbl, before |-> tbl, ops |-> 0,
              last |-> [op |-> "none", chat_id |-> 0],
              prev |-> [op |-> "none", chat_id |-> 0],
              reply |-> NoReply]

\* the state after a command of chat_id that leaves table t and sends r
AfterCmd(op, chat_id, t, r) ==
  [cmd EXCEPT !.tbl = t, !.before = cmd.tbl, !.ops = @ + 1,
              !.last = [op |-> op, chat_id |-> chat_id], !.prev = cmd.last,
              !.reply = r]

CmdStop ==
  /\ cmd.ops < MaxOps
  /\ \E chat_id \in ChatIds :
       cmd' = AfterCmd("stop", chat_id, handle_stop(cmd.tbl, chat_id),
                       [NoReply EXCEPT !.text = "stopped"])
  /\ UNCHANGED <<botVars, nq, dq, cq, popup, view, pipe, store, chk, file, menu>>

CmdResume ==
  /\ cmd.ops < MaxOps
  /\ \E chat_id \in ChatIds :
       cmd' = AfterCmd("resume", chat_id, handle_resume(cmd.tbl, chat_id),
                       [NoReply EXCEPT !.text = "resumed"])
  /\ UNCHANGED <<botVars, nq, dq, cq, popup, view, pipe, store, chk, file, menu>>

CmdStatus ==
  /\ cmd.ops < MaxOps
  /\ \E chat_id \in ChatIds :
       cmd' = AfterCmd("status", chat_id, cmd.tbl, handle_status(cmd.tbl, chat_id))
  /\ UNCHANGED <<botVars, nq, dq, cq, popup, view, pipe, store, chk, file, menu>>

SpecCommands ==
  InitCommands /\ [][CmdStop \/ CmdResume \/ CmdStatus]_vars

\* C20: /stop and /resume set the active flag of the sender's record to 0
\* and to 1 and change nothing else, a second /stop or /resume changes
\* nothing, /status changes nothing and reports the stored district_id,
\* last_level and active flag, and none of them creates a record.
C20_StopResumeStatusFrame ==
  LET c == cmd.last.chat_id
      \* table t is table b with the active flag of c's record, if any, set to a
      OnlyActiveOf(t, b, a) ==
        /\ DOMAIN t = DOMAIN b
        /\ \A k \in DOMAIN b :
             t[k] = IF k = c THEN [b[k] EXCEPT !.active = a] ELSE b[k]
  IN
  /\ cmd.last.op = "stop" => OnlyActiveOf(cmd.tbl, cmd.before, 0)
  /\ cmd.last.op = "resume" => OnlyActiveOf(cmd.tbl, cmd.before, 1)
  /\ (cmd.last.op \in {"stop", "resume"} /\ cmd.prev = cmd.last) => cmd.tbl = cmd.before
  /\ cmd.last.op = "status" =>
       /\ cmd.tbl = cmd.before
       /\ IF c \in DOMAIN cmd.before
          THEN /\ cmd.reply.text = "status"
               /\ cmd.reply.district_id = cmd.before[c].district_id
               /\ cmd.reply.last_level =
                    (IF cmd.before[c].last_level = "NULL" THEN "None"
                     ELSE cmd.before[c].last_level)
               /\ (cmd.reply.status = "on") <=> (cmd.before[c].active = 1)
               /\ (cmd.reply.status = "off") <=> (cmd.before[c].active = 0)
          ELSE cmd.reply.text = "not registered"
  /\ cmd.last.op # "none" => DOMAIN cmd.tbl = DOMAIN cmd.before

\* chat 1 sent /stop and then /status while chat 2 stays active: the
\* status says off and shows the stored last_level
C20_Witness ==
  /\ cmd.ops = 3
  /\ cmd.prev = [op |-> "stop", chat_id |-> 1]
  /\ cmd.last = [op |-> "status", chat_id |-> 1]
  /\ DOMAIN cmd.tbl = {1, 2}
  /\ cmd.tbl[2].active = 1
  /\ cmd.tbl[1].last_level = "moderate"
  /\ cmd.reply.status = "off" /\ cmd.reply.last_level = "moderate"

----------------------------------------------------------------------------
(* The bot's main loop: the stored district, the order of reads and writes, *)
(* the first alert, the language and the offset (Spec)                      *)

\* C21: after a run of check_alerts that went through, the district_id
\* stored for every subscriber that was active in the run is the district_id
\* of the district the run took the level and the readings from.
C21_StoredDistrictIsTheOneUsed ==
  (pc = "sleep" /\ hist # <<>>) =>
    \A c \in ChatIds :
      (Chat(Len(hist), c).present /\ Chat(Len(hist), c).active) =>
        users[c].district_id = Chat(Len(hist), c).used

\* C24: in a run of check_alerts, a subscriber that is active and has no
\* last_level yet and whose nearest district is found is sent one
\* notification, whatever the level, and its last_level is then that level.
C24_FirstCycleNotifies ==
  \A i \in Runs, c \in ChatIds :
    LET r == Chat(i, c) IN
    (r.present /\ r.active /\ r.before = "NULL" /\ r.resolved) =>
      (r.sent = 1 /\ r.after = r.level)

\* C25: the language of every record is "ar" or "en" and no run of
\* check_alerts fails to find its alert text; /lang of a registered chat
\* changes the language of its record to the other one and nothing else, a
\* second /lang gives the table back, and /lang of a chat without a record
\* leaves the table as it is.
C25_LanguageArOrEn ==
  /\ \A c \in DOMAIN users : users[c].lang \in AlertLangs
  /\ err # "KeyError"
  /\ \A c \in ChatIds :
       LET t == handle_lang(users, c) IN
       /\ DOMAIN t = DOMAIN users
       /\ c \in DOMAIN users =>
            /\ t[c].lang \in AlertLangs \ {users[c].lang}
            /\ t = [users EXCEPT ![c].lang = t[c].lang]
       /\ c \notin DOMAIN users => t = users
       /\ handle_lang(t, c) = users

\* chat 1 switched to English and a run of check_alerts then notified it,
\* while chat 2 has no record
C25_Witness ==
  /\ pc = "sleep"
  /\ DOMAIN users = {1}
  /\ users[1].lang = "en"
  /\ Chat(Len(hist), 1).sent = 1 /\ Chat(Len(hist), 1).outcome = "ok"
  /\ users[1].last_level = "unhealthy"

\* C26: offset never decreases; the updates of a poll are the ones from
\* offset on, in ascending order; an update that main() takes up has an id
\* not below offset, and offset is that id + 1 afterwards, so that no later
\* poll delivers it again.
C26_UpdatesHandledOnce ==
  [][ /\ offset' >= offset
      /\ (pc = "poll" /\ pc' = "handle") =>
           \A i \in 1..Len(inbox') :
             /\ inbox'[i] >= offset
             /\ \A j \in 1..Len(inbox') : i < j => inbox'[i] < inbox'[j]
      /\ (pc = "handle" /\ inbox # <<>> /\ inbox' # inbox) =>
           /\ inbox' = Tail(inbox)
           /\ Head(inbox) >= offset
           /\ offset' = Head(inbox) + 1
           /\ \A i \in 1..Len(inbox') : inbox'[i] >= offset'
    ]_vars

\* the first iteration handled updates 1 and 2 and ran check_alerts, and the
\* second poll delivered update 3 only
C26_Witness ==
  /\ cycle = 1
  /\ pc = "handle"
  /\ offset = 3
  /\ inbox = <<3>>
  /\ DOMAIN users # {}

----------------------------------------------------------------------------
(* SpecSerial: main() with check_alerts taken one row at a time.  main() is *)
(* the only thread: it handles the updates of a poll, then calls            *)
(* check_alerts, which reads the active rows once (fetchall) and then       *)
(* visits them, and returns before the next poll.                           *)

\* one update handled by main(): a location share, /stop, /resume or /lang
MainHandlesUpdate ==
  /\ chk.pc = "handle"
  /\ chk.ops < MaxUpdates
  /\ \E chat \in ChatIds, p \in Points, districts \in Snapshots :
     \E res \in {nearest_handle_location(p[1], p[2], districts, 1, NearestInit)} :
     \E tbl \in {IF res.raised \/ res.nearest = 0 THEN chk.tbl
                  ELSE Upsert(chk.tbl, chat, p[1], p[2], districts[res.nearest].district_id),
                  SetActive(chk.tbl, chat, 0),
                  SetActive(chk.tbl, chat, 1),
                  SetLang(chk.tbl, chat,
                          IF chat \in DOMAIN chk.tbl /\ chk.tbl[chat].lang = "ar"
                          THEN "en" ELSE "ar")} :
       chk' = [chk EXCEPT !.tbl = tbl, !.ops = @ + 1]
  /\ UNCHANGED <<botVars, nq, dq, cq, popup, view, pipe, store, cmd, file, menu>>

\* check_alerts: load_data() and the SELECT ... WHERE active=1 with fetchall()
CheckAlertsSelect ==
  /\ chk.pc = "handle"
  /\ chk.cycles < MaxCycles
  /\ \E districts \in Snapshots :
       /\ load_data(districts)
       /\ chk' = [chk EXCEPT !.pc = "check", !.districts = districts,
                             !.rows = SelectActive(chk.tbl, 1), !.visited = {}]
  /\ UNCHANGED <<botVars, nq, dq, cq, popup, view, pipe, store, cmd, file, menu>>

\* check_alerts: the body of the for loop for the next fetched row
CheckAlertsVisit ==
  /\ chk.pc = "check"
  /\ chk.rows # <<>>
  /\ \E o \in SendOutcomes :
       LET row == Head(chk.rows)
           st == check_alerts_row(row, chk.districts, [c \in ChatIds |-> o],
                                  [tbl |-> chk.tbl, log |-> <<>>, err |-> "none"])
       IN chk' = [chk EXCEPT !.pc = IF st.err = "none" THEN "check" ELSE "crashed",
                             !.tbl = st.tbl,
                             !.rows = Tail(chk.rows),
                             !.visited = @ \cup {row.chat_id},
                             !.last = [chat_id |-> row.chat_id,
                                       read |-> row.last,
                                       stored |-> chk.tbl[row.chat_id].last_level,
                                       wrote |-> st.tbl # chk.tbl]]
  /\ UNCHANGED <<botVars, nq, dq, cq, popup, view, pipe, store, cmd, file, menu>>

\* check_alerts returns; time.sleep(CHECK_INTERVAL) and the next poll follow
CheckAlertsReturn ==
  /\ chk.pc = "check"
  /\ chk.rows = <<>>
  /\ chk' = [chk EXCEPT !.pc = "handle", !.cycles = @ + 1]
  /\ UNCHANGED <<botVars, nq, dq, cq, popup, view, pipe, store, cmd, file, menu>>

InitSerial ==
  /\ BotIdle /\ nq = NqIdle /\ dq = DqIdle /\ cq = CqIdle
  /\ popup = Idle /\ view = Idle /\ pipe = Idle /\ store = Idle /\ cmd = Idle
  /\ file = Idle /\ menu = Idle
  /\ chk = [pc |-> "handle", tbl |-> [c \in {} |-> NewRow(0, 0, "")],
            districts |-> <<>>, rows |-> <<>>, visited |-> {}, cycles |-> 0, ops |-> 0,
            last |-> [chat_id |-> 0, read |-> "NULL", stored |-> "NULL", wrote |-> FALSE]]

SpecSerial ==
  InitSerial /\ [][MainHandlesUpdate \/ CheckAlertsSelect \/ CheckAlertsVisit \/ CheckAlertsReturn]_vars

\* C22: while check_alerts runs, every fetched row not yet visited is the
\* row of a different chat that was not visited in this run and still holds
\* what the table holds (no update was handled in between), and the
\* last_level a visit compared with was the stored one when the visit began.
C22_LastLevelSerialized ==
  /\ chk.pc = "check" =>
       \A i \in 1..Len(chk.rows) :
         LET row == chk.rows[i] IN
         /\ row.chat_id \notin chk.visited
         /\ \A j \in 1..Len(chk.rows) : chk.rows[j].chat_id = row.chat_id => j = i
         /\ row.chat_id \in DOMAIN chk.tbl
         /\ chk.tbl[row.chat_id].active = 1
         /\ row.last = chk.tbl[row.chat_id].last_level
         /\ row.lang = chk.tbl[row.chat_id].lang
  /\ chk.pc # "idle" => chk.last.read = chk.last.stored

\* in the second run of check_alerts chat 1 has been visited and its
\* last_level rewritten while the row of chat 2 is still to come
C22_Witness ==
  /\ chk.pc = "check"
  /\ chk.cycles = 1
  /\ chk.visited = {1}
  /\ chk.last.chat_id = 1 /\ chk.last.wrote /\ chk.last.read # "NULL"
  /\ Len(chk.rows) = 1 /\ chk.rows[1].chat_id = 2

----------------------------------------------------------------------------
(* SpecFile: pm10_alerts.json between the pipeline step that writes it and  *)
(* a reader.  The file system maps the published name to an inode; an inode *)
(* holds the parts written so far, and a complete snapshot of run v is the  *)
(* two parts <<v, v>>.  A reader opens the name once and then reads the     *)
(* inode it got, part by part, until the end of the file.                   *)

\* parts of a complete snapshot
Parts == 2

\* the writer opens pm10_alerts.json itself for writing, truncating it
OpenOutputInPlace(f) ==
  [f EXCEPT !.wfd = f.name, !.inodes[f.name] = <<>>]

\* the writer opens a temporary file next to the output: a new inode that
\* has no name a reader uses
OpenOutput(f) ==
  [f EXCEPT !.wfd = Len(f.inodes) + 1, !.inodes = Append(@, <<>>)]

\* STEP 3 starts and opens its output
WriterOpen ==
  /\ file.phase = "fs"
  /\ file.wfd = 0
  /\ file.run < MaxRuns
  /\ file' = [OpenOutput(file) EXCEPT !.run = @ + 1]
  /\ UNCHANGED <<botVars, nq, dq, cq, popup, view, pipe, store, cmd, chk, menu>>

\* the writer writes the next part of the snapshot of this run
WriterWrite ==
  /\ file.phase = "fs"
  /\ file.wfd # 0
  /\ Len(file.inodes[file.wfd]) < Parts
  /\ file' = [file EXCEPT !.inodes[file.wfd] = Append(@, file.run)]
  /\ UNCHANGED <<botVars, nq, dq, cq, popup, view, pipe, store, cmd, chk, menu>>

\* everything is written: the file is closed and renamed to the output name
WriterRename ==
  /\ file.phase = "fs"
  /\ file.wfd # 0
  /\ Len(file.inodes[file.wfd]) = Parts
  /\ file' = [file EXCEPT !.name = file.wfd, !.wfd = 0]
  /\ UNCHANGED <<botVars, nq, dq, cq, popup, view, pipe, store, cmd, chk, menu>>

\* load_data: open(DATA_FILE, "r")
ReaderOpen ==
  /\ file.phase = "fs"
  /\ file.rfd = 0
  /\ file.reads < MaxOps
  /\ file' = [file EXCEPT !.rfd = file.name, !.buf = <<>>, !.reads = @ + 1]
  /\ UNCHANGED <<botVars, nq, dq, cq, popup, view, pipe, store, cmd, chk, menu>>

\* load_data: json.load(f) reads the open file to its end and parses what
\* it read; the with block closes the file
ReaderRead ==
  /\ file.phase = "fs"
  /\ file.rfd # 0
  /\ LET data == file.inodes[file.rfd] IN
     IF Len(file.buf) < Len(data)
     THEN file' = [file EXCEPT !.buf = Append(@, data[Len(file.buf) + 1])]
     ELSE file' = [file EXCEPT !.rfd = 0, !.got = file.buf]
  /\ UNCHANGED <<botVars, nq, dq, cq, popup, view, pipe, store, cmd, chk, menu>>

\* the file as a finished run left it
InitFile ==
  /\ BotIdle /\ nq = NqIdle /\ dq = DqIdle /\ cq = CqIdle
  /\ popup = Idle /\ view = Idle /\ pipe = Idle /\ store = Idle /\ cmd = Idle
  /\ chk = Idle /\ menu = Idle
  /\ file = [phase |-> "fs", name |-> 1, inodes |-> <<[i \in 1..Parts |-> 0]>>,
             wfd |-> 0, run |-> 0,
             rfd |-> 0, buf |-> <<>>, reads |-> 0, got |-> [i \in 1..Parts |-> 0]]

SpecFile ==
  InitFile /\ [][WriterOpen \/ WriterWrite \/ WriterRename \/ ReaderOpen \/ ReaderRead]_vars

\* C23: what a reader of pm10_alerts.json got is a complete snapshot of one
\* run, the one published when it opened the file, whatever the writer did
\* while it was reading.
C23_ReaderSeesCompleteSnapshot ==
  file.phase = "fs" =>
    /\ \E v \in 0..MaxRuns : file.got = [i \in 1..Parts |-> v]
    /\ Len(file.inodes[file.name]) = Parts

\* a reader opened the file before a run renamed its output and finished
\* reading after it: it got the previous snapshot, complete
C23_Witness ==
  /\ file.phase = "fs"
  /\ file.reads > 0 /\ file.rfd = 0
  /\ file.run = 2 /\ file.wfd # 0 /\ file.inodes[file.wfd] # <<>>
  /\ file.got = [i \in 1..Parts |-> 1]
  /\ file.inodes[file.name] = [i \in 1..Parts |-> 1]

----------------------------------------------------------------------------
(* SpecMenu: setupMobileMenu of js/main.js and of part_000 and the events   *)
(* of the page: clicks on the burger button, on the overlay and on a link   *)
(* of the menu, the timer a link click sets, and window resizes.            *)

\* the close statements without overlay.classList.remove("show")
CloseMenuKeepsOverlay(m) ==
  [m EXCEPT !.open = FALSE, !.overflow = "", !.innerHTML = "burger",
            !.ariaExpanded = "false"]

\* the five statements that close the menu: classList.remove("open"),
\* classList.remove("show"), body overflow "", the burger symbol and
\* aria-expanded "false"
CloseMenu(m) ==
  [m EXCEPT !.open = FALSE, !.show = FALSE, !.overflow = "", !.innerHTML = "burger",
            !.ariaExpanded = "false"]

\* the page as loaded, after setupMobileMenu: the menu closed as the HTML
\* has it, the burger button displayed if window.innerWidth <= 768.  Without
\* the overlay element part_000 returns early and js/main.js stops at its
\* assignment to the const overlay; no listener is attached.
InitMenu ==
  /\ BotIdle /\ nq = NqIdle /\ dq = DqIdle /\ cq = CqIdle
  /\ popup = Idle /\ view = Idle /\ pipe = Idle /\ store = Idle /\ cmd = Idle
  /\ chk = Idle /\ file = Idle
  /\ \E variant \in {"main", "part_000"}, hasOverlay \in BOOLEAN,
        innerWidth \in {375, 768, 769, 1280} :
       menu = [phase |-> "page", variant |-> variant, listeners |-> hasOverlay,
               innerWidth |-> innerWidth,
               display |-> IF hasOverlay /\ innerWidth <= 768 THEN "block" ELSE "css",
               open |-> FALSE, show |-> FALSE, overflow |-> "",
               innerHTML |-> "burger", ariaExpanded |-> "false",
               timers |-> 0, last |-> "none"]

\* toggleMenu, the click listener of the burger button
BurgerClick ==
  /\ menu.phase = "page"
  /\ menu.listeners
  /\ menu' = IF menu.open
             THEN [CloseMenu(menu) EXCEPT !.last = "burger"]
             ELSE [menu EXCEPT !.open = TRUE, !.show = TRUE, !.overflow = "hidden",
                               !.innerHTML = "close", !.ariaExpanded = "true",
                               !.last = "burger"]
  /\ UNCHANGED <<botVars, nq, dq, cq, popup, view, pipe, store, cmd, chk, file>>

\* the click listener of the overlay
OverlayClick ==
  /\ menu.phase = "page"
  /\ menu.listeners
  /\ menu' = [CloseMenu(menu) EXCEPT !.last = "overlay"]
  /\ UNCHANGED <<botVars, nq, dq, cq, popup, view, pipe, store, cmd, chk, file>>

\* the click listener of a link of the open menu: setTimeout(..., 100)
LinkClick ==
  /\ menu.phase = "page"
  /\ menu.listeners
  /\ menu.open
  /\ menu.timers < MaxLen
  /\ menu' = [menu EXCEPT !.timers = @ + 1, !.last = "link"]
  /\ UNCHANGED <<botVars, nq, dq, cq, popup, view, pipe, store, cmd, chk, file>>

\* the callback of a link click's setTimeout runs
LinkTimeout ==
  /\ menu.phase = "page"
  /\ menu.timers > 0
  /\ menu' = [CloseMenu(menu) EXCEPT !.timers = @ - 1, !.last = "timeout"]
  /\ UNCHANGED <<botVars, nq, dq, cq, popup, view, pipe, store, cmd, chk, file>>

\* the resize listener of the window: js/main.js closes an open menu at
\* desktop width, part_000 closes at desktop width whatever the menu is
Resize ==
  /\ menu.phase = "page"
  /\ menu.listeners
  /\ \E innerWidth \in {375, 768, 769, 1280} :
       LET m == [menu EXCEPT !.innerWidth = innerWidth, !.last = "resize"] IN
       /\ innerWidth # menu.innerWidth
       /\ menu' = IF innerWidth > 768 /\ (menu.variant = "part_000" \/ menu.open)
                  THEN CloseMenu(m) ELSE m
  /\ UNCHANGED <<botVars, nq, dq, cq, popup, view, pipe, store, cmd, chk, file>>

SpecMenu ==
  InitMenu /\ [][BurgerClick \/ OverlayClick \/ LinkClick \/ LinkTimeout \/ Resize]_vars

\* C29: the menu is open exactly if the overlay is shown, exactly if the
\* page's scrolling is locked, exactly if the button shows the close symbol
\* and exactly if aria-expanded is "true"; after an overlay click, after the
\* delayed close of a link click and after a resize to desktop width the
\* menu is closed.
C29_MenuStateConsistent ==
  menu.phase = "page" =>
    /\ menu.open <=> menu.show
    /\ menu.open <=> (menu.overflow = "hidden")
    /\ menu.open <=> (menu.innerHTML = "close")
    /\ menu.open <=> (menu.ariaExpanded = "true")
    /\ menu.overflow \in {"", "hidden"}
    /\ menu.innerHTML \in {"burger", "close"}
    /\ ( \/ menu.last \in {"overlay", "timeout"}
         \/ (menu.last = "resize" /\ menu.innerWidth > 768) ) => ~menu.open

\* the menu was opened again while the delayed close of a link click was
\* still pending
C29_Witness ==
  /\ menu.phase = "page"
  /\ menu.last = "burger"
  /\ menu.open /\ menu.show /\ menu.ariaExpanded = "true"
  /\ menu.timers > 0

====
